---- MODULE Spec2Model ----
(***************************************************************************)
(* days-in-office (src/main.go): reads Google Maps Timeline exports, keeps *)
(* the visited places that overlap a time range and lie within a tolerance *)
(* of the office location, and collects the calendar days of those visits. *)
(*                                                                         *)
(* Units of the model                                                      *)
(*   time      an instant is a number of half days since 2022-01-30T00:00Z;*)
(*             a time.Time is [inst, off]: the instant and the zone offset *)
(*             (in half days) it was written with. Before/After compare    *)
(*             instants; Format and Weekday read the wall clock inst + off.*)
(*   degrees   whole degrees, multiples of 60, where the haversine formula *)
(*             is exact in sixteenths (sin^2 30 = 1/4, cos 60 = 1/2).      *)
(*   text      a string is a sequence of one-character strings; "deg"      *)
(*             stands for the degree sign.                                 *)
(*   pointer   a *T is a sequence of length 0 (nil) or 1.                  *)
(***************************************************************************)
EXTENDS Integers, Sequences, FiniteSets, TLC

VARIABLES
    fileNames,        \* main: the files listFilesRecursively found, in order, with their contents
    startDate,        \* main: -start-date
    endDate,          \* main: -end-date
    officeLocation,   \* main: orb.Point{latitude, longitude}
    tolerance,        \* main: -tolerance, meters
    daysInTheOffice,  \* main: the dayMap, date -> is a working day
    pc,               \* "main", "loop" (inside processFile's loop), "done", "panic"
    fileIdx,          \* main: position of the range loop over fileNames
    places,           \* processFile: what ParseTimelineInput returned
    placeIdx,         \* processFile: position of the range loop over places
    placesProcessed,  \* processFile: the counter of the same name
    logged,           \* the log lines written: <<file index, message>>
    output            \* what main reports, <<>> before

vars == <<fileNames, startDate, endDate, officeLocation, tolerance, daysInTheOffice,
          pc, fileIdx, places, placeIdx, placesProcessed, logged, output>>

\* ---------------------------------------------------------------- bounds

\* Files under -input-dir.
MaxFiles == 2

\* Entries (segments, path points, timeline objects) in one file.
MaxEntries == 2

\* The instants run from 0 to MaxInstant.
MaxInstant == 3

\* ---------------------------------------------------------------- helpers

SeqsUpTo(S, n) == UNION {[1..k -> S] : k \in 0..n}

Range(s) == {s[i] : i \in 1..Len(s)}

Abs(x) == IF x < 0 THEN -x ELSE x

RECURSIVE Flatten(_)
Flatten(ss) == IF ss = <<>> THEN <<>> ELSE Head(ss) \o Flatten(Tail(ss))

\* ---------------------------------------------------------------- time.Time

\* The zone offset of the process (time.Local).
LocalOffset == 0

Offsets == {0, 1}

Time(i, o) == [inst |-> i, off |-> o]

\* t.Before(u), t.After(u): comparisons of the instants, whatever the zones.
Before(t, u) == t.inst < u.inst

After(t, u) == t.inst > u.inst

\* The day of t's wall clock, counted from 2022-01-30.
DayIndex(t) == (t.inst + t.off) \div 2

\* The calendar date of a day index, <<year, month, day>>: the fields that
\* layout "2006-01-02" prints, zero padded, so that the order of the strings is
\* the lexicographic order of the triples.
CivilDate(d) == IF d <= 1 THEN <<2022, 1, 30 + d>> ELSE <<2022, 2, d - 1>>

\* t.Format("2006-01-02"): the date in t's own location.
Format(t) == CivilDate(DayIndex(t))

\* t.Weekday() in t's own location: time.Sunday = 0 ... time.Saturday = 6;
\* 2022-01-30 is a Sunday.
Weekday(t) == DayIndex(t) % 7

Sunday == 0

Saturday == 6

\* ---------------------------------------------------------------- geo.DistanceHaversine

\* 2 * cos(x) and 4 * sin^2(x / 2) for x a multiple of 60 degrees.
Cos2(x) == CASE Abs(x) = 0 -> 2 [] Abs(x) = 60 -> 1 [] Abs(x) = 120 -> -1 [] Abs(x) = 180 -> -2

Hav4(x) == CASE Abs(x) = 0 -> 0 [] Abs(x) = 60 -> 1 [] Abs(x) = 120 -> 3 [] Abs(x) = 180 -> 4

\* 2 * orb.EarthRadius * asin(sqrt(a / 16)) in whole meters, a = 0 .. 16, with
\* orb.EarthRadius = 6378137.
ArcMeters == <<0, 3223259, 4609698, 5712673, 6679169, 7567019, 8407125, 9219396, 10018754,
               10818112, 11630383, 12470489, 13358339, 14324836, 15427810, 16814250, 20037508>>

\* geo.DistanceHaversine(p1, p2) of github.com/paulmach/orb: an orb.Point is
\* [2]float64{lon, lat}, so p[1] here is the longitude and p[2] the latitude.
\*   dLat := deg2rad(p1[1] - p2[1]); dLon := deg2rad(p1[0] - p2[0])
\*   a := sin(dLat/2)^2 + cos(deg2rad(p2[1])) * cos(deg2rad(p1[1])) * sin(dLon/2)^2
\*   return 2 * orb.EarthRadius * asin(sqrt(a))
DistanceHaversine(p1, p2) ==
    LET dLat == p1[2] - p2[2]
        dLon == p1[1] - p2[1]
        a16  == 4 * Hav4(dLat) + Cos2(p2[2]) * Cos2(p1[2]) * Hav4(dLon)
    IN  ArcMeters[a16 + 1]

\* ---------------------------------------------------------------- parsePoint

Digits == <<"0", "1", "2", "3", "4", "5", "6", "7", "8", "9">>

IsDigit(c) == \E i \in 1..10 : Digits[i] = c

DigitValue(c) == (CHOOSE i \in 1..10 : Digits[i] = c) - 1

\* strings.ReplaceAll(value, "°", "")
RECURSIVE StripDegree(_)
StripDegree(s) ==
    IF s = <<>> THEN <<>>
    ELSE IF Head(s) = "deg" THEN StripDegree(Tail(s))
    ELSE <<Head(s)>> \o StripDegree(Tail(s))

\* strings.Split(s, ", "): the pieces between the occurrences of the separator,
\* one more than there are occurrences.
RECURSIVE SplitCommaSpace(_, _)
SplitCommaSpace(s, piece) ==
    IF s = <<>> THEN <<piece>>
    ELSE IF Len(s) >= 2 /\ s[1] = "," /\ s[2] = " "
         THEN <<piece>> \o SplitCommaSpace(Tail(Tail(s)), <<>>)
    ELSE SplitCommaSpace(Tail(s), Append(piece, Head(s)))

RECURSIVE DecimalValue(_, _)
DecimalValue(s, acc) ==
    IF s = <<>> THEN acc ELSE DecimalValue(Tail(s), 10 * acc + DigitValue(Head(s)))

\* strconv.ParseFloat(s, 64) with its error dropped: over this alphabet only a
\* non-empty run of digits is a number, anything else gives 0 and an error.
ParseFloat(s) ==
    IF s # <<>> /\ \A i \in 1..Len(s) : IsDigit(s[i]) THEN DecimalValue(s, 0) ELSE 0

\* parsePoint: coords[1] of a value without ", " is an index out of range, a
\* run-time panic.
parsePoint(value) ==
    LET coords == SplitCommaSpace(StripDegree(value), <<>>)
    IN  IF Len(coords) < 2
        THEN [panic |-> TRUE, lat |-> 0, long |-> 0]
        ELSE [panic |-> FALSE, lat |-> ParseFloat(coords[1]), long |-> ParseFloat(coords[2])]

\* ---------------------------------------------------------------- ParseTimelineInput

\* 1e7, the scale of the E7 fields.
E7 == 10000000

\* timelinePoint
TimelinePoint(lat, long, start, end) ==
    [Latitude |-> lat, Longitude |-> long, Start |-> start, End |-> end]

\* json.NewDecoder(input).Decode(&w). A file is the document it holds:
\*   openErr           os.OpenFile failed, the reader is a nil *os.File
\*   decodeErr         Decode reports an error; the fields are then what it
\*                     had stored into w before reporting it
\*   semanticSegments  [json: "absent", "null" or "array", items]
\*   timelineObjects   the array (absent is the empty array)
\* A key that is absent or null leaves the slice nil; an array, empty or not,
\* makes it non-nil. Reading a nil *os.File is an error (os.ErrInvalid).
Decode(file) ==
    [err |-> file.openErr \/ file.decodeErr,
     SemanticSegments |-> [isNil |-> file.semanticSegments.json # "array",
                           items |-> IF file.semanticSegments.json = "array"
                                     THEN file.semanticSegments.items ELSE <<>>],
     TimelineObjects |-> file.timelineObjects]

\* A variant of IsSemanticFormat that takes a document for the semantic format
\* only when it holds segments: if len(w.SemanticSegments) > 0.
IsSemanticFormatNonEmpty(w) == Len(w.SemanticSegments.items) > 0

\* if w.SemanticSegments != nil
IsSemanticFormat(w) == ~w.SemanticSegments.isNil

\* The loops over w.SemanticSegments and entry.TimelinePath: one timelinePoint
\* per path point, with the times of its segment.
SemanticPoints(segments) ==
    Flatten([i \in 1..Len(segments) |->
        [j \in 1..Len(segments[i].timelinePath) |->
            LET p == parsePoint(segments[i].timelinePath[j].point)
            IN  TimelinePoint(p.lat, p.long, segments[i].startTime, segments[i].endTime)]])

SemanticPanics(segments) ==
    \E i \in 1..Len(segments) : \E j \in 1..Len(segments[i].timelinePath) :
        parsePoint(segments[i].timelinePath[j].point).panic

\* if CenterLatE7 == 0 || CenterLngE7 == 0: take the location's fields.
UseLocation(place) == place.centerLatE7 = 0 \/ place.centerLngE7 = 0

CenterOf(place) ==
    IF UseLocation(place)
    THEN <<place.location.latitudeE7, place.location.longitudeE7>>
    ELSE <<place.centerLatE7, place.centerLngE7>>

\* The loop over w.TimelineObjects: entries without a placeVisit are left out.
RECURSIVE VisitedPlaces(_)
VisitedPlaces(objects) ==
    IF objects = <<>> THEN <<>>
    ELSE IF Head(objects).placeVisit = <<>> THEN VisitedPlaces(Tail(objects))
    ELSE LET place == Head(objects).placeVisit[1]
             c     == CenterOf(place)
         IN  <<TimelinePoint(c[1] \div E7, c[2] \div E7,
                             place.duration.startTimestamp, place.duration.endTimestamp)>>
             \o VisitedPlaces(Tail(objects))

\* ParseTimelineInput after the decoding: the entries of w, in either format.
TimelinePoints(w) ==
    IF IsSemanticFormat(w)
    THEN IF SemanticPanics(w.SemanticSegments.items)
         THEN [panic |-> TRUE, err |-> FALSE, result |-> <<>>]
         ELSE [panic |-> FALSE, err |-> FALSE,
               result |-> SemanticPoints(w.SemanticSegments.items)]
    ELSE [panic |-> FALSE, err |-> FALSE, result |-> VisitedPlaces(w.TimelineObjects)]

\* A variant of ParseTimelineInput that hands back, with the error, the entries
\* decoded before it.
ParseTimelineInputKeepingEntries(file) ==
    LET w == Decode(file)
    IN  IF file.openErr THEN [panic |-> FALSE, err |-> TRUE, result |-> <<>>]
        ELSE [TimelinePoints(w) EXCEPT !.err = w.err]

\* ParseTimelineInput(input): [panic, err, result]; with an error the result is
\* nil: return nil, fmt.Errorf("decoding JSON: %w", err).
ParseTimelineInput(file) ==
    LET w == Decode(file)
    IN  IF w.err THEN [panic |-> FALSE, err |-> TRUE, result |-> <<>>]
        ELSE TimelinePoints(w)

\* ---------------------------------------------------------------- dayMap

\* A variant of Add that takes the weekday of the instant in UTC,
\* t.UTC().Weekday(), and the date as Add does.
AddWithUTCWeekday(d, t) ==
    LET date == Format(t)
        weekday == (t.inst \div 2) % 7
        isWorkingDay == weekday # Saturday /\ weekday # Sunday
    IN  [k \in DOMAIN d \cup {date} |-> IF k = date THEN isWorkingDay ELSE d[k]]

\* d.Add(t): d[date] = t.Weekday() != time.Saturday && t.Weekday() != time.Sunday
Add(d, t) ==
    LET date == Format(t)
        isWorkingDay == Weekday(t) # Saturday /\ Weekday(t) # Sunday
    IN  [k \in DOMAIN d \cup {date} |-> IF k = date THEN isWorkingDay ELSE d[k]]

\* d.CountWorkingDays()
CountWorkingDays(d) == Cardinality({k \in DOMAIN d : d[k]})

\* d.ToSlice(): the keys, in the order the map hands them out (any order).
ToSlice(d) == DOMAIN d

\* The order of sort.Strings on "2006-01-02" dates.
DateLess(a, b) ==
    \/ a[1] < b[1]
    \/ a[1] = b[1] /\ a[2] < b[2]
    \/ a[1] = b[1] /\ a[2] = b[2] /\ a[3] < b[3]

\* sort.Strings(list)
RECURSIVE SortStrings(_)
SortStrings(S) ==
    IF S = {} THEN <<>>
    ELSE LET m == CHOOSE x \in S : \A y \in S \ {x} : DateLess(x, y)
         IN  <<m>> \o SortStrings(S \ {m})

\* ---------------------------------------------------------------- processFile

\* A variant of OutOfRange that also drops a place that ends at the very instant
\* the range starts, or starts at the very instant the range ends.
OutOfRangeAtBoundary(place) == ~After(place.End, startDate) \/ ~Before(place.Start, endDate)

\* place.End.Before(startDate) || place.Start.After(endDate)
OutOfRange(place) == Before(place.End, startDate) \/ After(place.Start, endDate)

\* A variant of AfterSkip that leaves the loop, as its comment considers:
\* "We expect entries to be in sorted order, so we could break here."
AfterSkipBreak(i) == Len(places) + 1

\* continue: the loop goes on with the next place.
AfterSkip(i) == i + 1

\* geo.DistanceHaversine(officeLocation, orb.Point{place.Latitude, place.Longitude})
Distance(place) == DistanceHaversine(officeLocation, <<place.Latitude, place.Longitude>>)

\* processFile up to its loop: open, parse, log the errors.
ParseFile ==
    /\ pc = "main"
    /\ fileIdx <= Len(fileNames)
    /\ LET file == fileNames[fileIdx]
           r    == ParseTimelineInput(file)
       IN  /\ ~r.panic
           /\ places' = r.result
           /\ logged' = logged
                  \cup (IF file.openErr THEN {<<fileIdx, "Could not open file">>} ELSE {})
                  \cup (IF r.err THEN {<<fileIdx, "Could not parse file">>} ELSE {})
    /\ placeIdx' = 1
    /\ placesProcessed' = 0
    /\ pc' = "loop"
    /\ UNCHANGED <<fileNames, startDate, endDate, officeLocation, tolerance,
                   daysInTheOffice, fileIdx, output>>

\* parsePoint panics inside ParseTimelineInput: the process ends there.
ParsePanic ==
    /\ pc = "main"
    /\ fileIdx <= Len(fileNames)
    /\ ParseTimelineInput(fileNames[fileIdx]).panic
    /\ pc' = "panic"
    /\ UNCHANGED <<fileNames, startDate, endDate, officeLocation, tolerance,
                   daysInTheOffice, fileIdx, places, placeIdx, placesProcessed,
                   logged, output>>

\* One turn of the loop on a place outside the time range.
SkipPlace ==
    /\ pc = "loop"
    /\ placeIdx <= Len(places)
    /\ OutOfRange(places[placeIdx])
    /\ placeIdx' = AfterSkip(placeIdx)
    /\ UNCHANGED <<fileNames, startDate, endDate, officeLocation, tolerance,
                   daysInTheOffice, pc, fileIdx, places, placesProcessed, logged, output>>

\* One turn of the loop on a place inside the time range.
VisitPlace ==
    /\ pc = "loop"
    /\ placeIdx <= Len(places)
    /\ ~OutOfRange(places[placeIdx])
    /\ daysInTheOffice' = IF Distance(places[placeIdx]) <= tolerance
                          THEN Add(daysInTheOffice, places[placeIdx].Start)
                          ELSE daysInTheOffice
    /\ placesProcessed' = placesProcessed + 1
    /\ placeIdx' = placeIdx + 1
    /\ UNCHANGED <<fileNames, startDate, endDate, officeLocation, tolerance,
                   pc, fileIdx, places, logged, output>>

\* The loop is over: the debug line, and main goes on with the next file.
EndFile ==
    /\ pc = "loop"
    /\ placeIdx > Len(places)
    /\ logged' = logged \cup {<<fileIdx, "Found visits", Len(places), placesProcessed>>}
    /\ fileIdx' = fileIdx + 1
    /\ pc' = "main"
    /\ UNCHANGED <<fileNames, startDate, endDate, officeLocation, tolerance,
                   daysInTheOffice, places, placeIdx, placesProcessed, output>>

\* ---------------------------------------------------------------- main

\* After the last file: the summary line and, with -print-dates, the dates.
Report ==
    /\ pc = "main"
    /\ fileIdx > Len(fileNames)
    /\ \E printDates \in BOOLEAN :
          output' = <<[days |-> Cardinality(DOMAIN daysInTheOffice),
                       workingDays |-> CountWorkingDays(daysInTheOffice),
                       dates |-> IF printDates
                                 THEN LET list == SortStrings(ToSlice(daysInTheOffice))
                                      IN  [i \in 1..Len(list) |->
                                              [date |-> list[i],
                                               weekend |-> ~daysInTheOffice[list[i]]]]
                                 ELSE <<>>]>>
    /\ pc' = "done"
    /\ UNCHANGED <<fileNames, startDate, endDate, officeLocation, tolerance,
                   daysInTheOffice, fileIdx, places, placeIdx, placesProcessed, logged>>

Next == ParseFile \/ ParsePanic \/ SkipPlace \/ VisitPlace \/ EndFile \/ Report

\* ---------------------------------------------------------------- inputs

Degrees == {0, 60}

\* The decimal text of a natural number.
RECURSIVE DecimalText(_)
DecimalText(n) ==
    IF n < 10 THEN <<Digits[n + 1]>> ELSE DecimalText(n \div 10) \o <<Digits[(n % 10) + 1]>>

\* "60°, 0°"
PointText(lat, long) == DecimalText(lat) \o <<"deg", ",", " ">> \o DecimalText(long) \o <<"deg">>

\* "60°,0°": no ", " in it.
NoSeparatorText == DecimalText(60) \o <<"deg", ",">> \o DecimalText(0) \o <<"deg">>

\* "x, 60°": the first part is no number.
NonNumericText == <<"x", ",", " ">> \o DecimalText(60) \o <<"deg">>

\* The empty string, which a path point without "point" decodes to.
EmptyText == <<>>

Segment(start, end, texts) ==
    [startTime |-> start, endTime |-> end,
     timelinePath |-> [j \in 1..Len(texts) |-> [point |-> texts[j]]]]

PlaceVisit(locLat, locLng, start, end, centerLat, centerLng) ==
    [location |-> [latitudeE7 |-> locLat, longitudeE7 |-> locLng],
     duration |-> [startTimestamp |-> start, endTimestamp |-> end],
     centerLatE7 |-> centerLat, centerLngE7 |-> centerLng]

\* {"semanticSegments": segments, "timelineObjects": objects}
SemanticFile(segments, objects) ==
    [openErr |-> FALSE, decodeErr |-> FALSE,
     semanticSegments |-> [json |-> "array", items |-> segments],
     timelineObjects |-> objects]

\* {"timelineObjects": objects}, with "semanticSegments" absent or null.
TimelineFile(json, objects) ==
    [openErr |-> FALSE, decodeErr |-> FALSE,
     semanticSegments |-> [json |-> json, items |-> <<>>],
     timelineObjects |-> objects]

\* A visit of one day that starts at instant i, written with offset o.
SimpleSegment(i, o, p) == Segment(Time(i, o), Time(i + 2, o), <<PointText(p[1], p[2])>>)

\* Visits at (60, 0) written with either offset, and visits at (60, 60).
SimpleSegments ==
    {SimpleSegment(i, o, <<60, 0>>) : i \in 1..(MaxInstant - 1), o \in Offsets}
        \cup {SimpleSegment(i, 0, <<60, 60>>) : i \in 1..(MaxInstant - 1)}

\* A visit at (60, 0) as exports write it since the center fields went away.
SimpleVisit(i) ==
    [placeVisit |-> <<PlaceVisit(60 * E7, 0, Time(i, 0), Time(i + 2, 0), 0, 0)>>]

\* A file that cannot be opened.
UnopenableFile == [SemanticFile(<<SimpleSegment(1, 0, <<60, 0>>)>>, <<>>) EXCEPT !.openErr = TRUE]

\* Files whose JSON fails to decode half way (a field of the wrong type), with
\* entries already stored.
HalfDecodedFiles ==
    {[SemanticFile(<<SimpleSegment(1, 0, <<60, 0>>)>>, <<>>) EXCEPT !.decodeErr = TRUE],
     [TimelineFile("absent", <<SimpleVisit(1)>>) EXCEPT !.decodeErr = TRUE]}

\* The files of a run over several files: one entry each.
SmallFiles ==
    {SemanticFile(<<SimpleSegment(i, 0, <<60, 0>>)>>, <<>>) : i \in 1..(MaxInstant - 1)}
        \cup {TimelineFile("absent", <<SimpleVisit(MaxInstant)>>)}
        \cup {SemanticFile(<<Segment(Time(1, 0), Time(2, 0), <<NoSeparatorText>>)>>, <<>>)}
        \cup {UnopenableFile} \cup HalfDecodedFiles

\* Files of simple segments, with every time, offset and order.
SegmentFiles == {SemanticFile(segs, <<>>) : segs \in SeqsUpTo(SimpleSegments, MaxEntries)}

PointTexts == {PointText(60, 0), NoSeparatorText, NonNumericText, EmptyText}

\* texts cut into consecutive runs, a new run starting after each position of
\* cuts.
RECURSIVE Runs(_, _, _)
Runs(texts, cuts, k) ==
    IF texts = <<>> THEN <<>>
    ELSE LET n == IF \E c \in cuts : c >= k
                  THEN (CHOOSE c \in cuts : c >= k /\ \A e \in cuts : e >= k => c <= e) - k + 1
                  ELSE Len(texts)
         IN  <<SubSeq(texts, 1, n)>> \o Runs(SubSeq(texts, n + 1, Len(texts)), cuts, k + n)

\* Every way to spread at most MaxEntries path points over segments, with or
\* without a segment that has no path in front.
PathLists ==
    {(IF emptyFirst THEN <<(<<>>)>> ELSE <<>>) \o Runs(texts, cuts, 1) :
        emptyFirst \in BOOLEAN,
        <<texts, cuts>> \in UNION {{<<t, c>> : c \in SUBSET (1..(Len(t) - 1))} :
                                      t \in SeqsUpTo(PointTexts, MaxEntries)}}

\* The k-th entry of a file of the two sets below lasts from instant k to k + 1.
PathFiles ==
    {SemanticFile([k \in 1..Len(paths) |-> Segment(Time(k, 0), Time(k + 1, 0), paths[k])], objects) :
        paths \in PathLists, objects \in {<<>>, <<SimpleVisit(1)>>}}

\* A timeline object: no placeVisit, or one with its center fields zero
\* (absent) or not, and its location fields zero (absent) only with them.
ObjectShapes ==
    {<<>>, <<0, 0, 0>>}
        \cup {<<cLat, cLng, 0 - 60 * E7>> : cLat \in {0, 60 * E7}, cLng \in {0, 60 * E7}}

ObjectOf(shape, k) ==
    IF shape = <<>> THEN [placeVisit |-> <<>>]
    ELSE [placeVisit |->
             <<PlaceVisit(shape[3], shape[3], Time(k, 0), Time(k + 1, 0), shape[1], shape[2])>>]

ObjectFiles ==
    {TimelineFile(json, [k \in 1..Len(shapes) |-> ObjectOf(shapes[k], k)]) :
        json \in {"absent", "null"}, shapes \in SeqsUpTo(ObjectShapes, MaxEntries)}

Tolerances == {0, 4000000}

\* The range lasts an instant or a day.
Ranges == {<<Time(a, 0), Time(a + w, 0)>> : a \in 0..(MaxInstant + 1), w \in {0, 2}}

\* A run over one file of segments takes every time range and either office; a
\* run over several small files takes every time range; a run over one file of
\* paths or objects takes a range that starts at instant 1.
Inputs ==
    {<<(<<f>>), r, o>> : f \in SegmentFiles, r \in Ranges, o \in {<<60, 0>>, <<0, 60>>}}
        \cup {<<l, r, <<60, 0>> >> : l \in SeqsUpTo(SmallFiles, MaxFiles), r \in Ranges}
        \cup {<<(<<f>>), r, <<60, 0>> >> :
                 f \in PathFiles \cup ObjectFiles, r \in {x \in Ranges : x[1].inst = 1}}

Init ==
    /\ \E in \in Inputs :
          /\ fileNames = in[1]
          /\ startDate = in[2][1]
          /\ endDate = in[2][2]
          /\ officeLocation = in[3]
    /\ tolerance \in Tolerances
    /\ daysInTheOffice = <<>>
    /\ pc = "main"
    /\ fileIdx = 1
    /\ places = <<>>
    /\ placeIdx = 1
    /\ placesProcessed = 0
    /\ logged = {}
    /\ output = <<>>

Spec == Init /\ [][Next]_vars

\* ---------------------------------------------------------------- properties
\* What the properties below speak of, stated on the inputs and not with the
\* operators of the program.

\* The interval of p and the requested range have an instant in common.
Overlaps(p) == ~(p.End.inst < startDate.inst \/ p.Start.inst > endDate.inst)

\* The day of an instant seen with a zone offset, its date and whether it is
\* a working day (day 0 is Sunday 2022-01-30).
DayOf(inst, off) == (inst + off) \div 2

DateOf(inst, off) ==
    LET d == DayOf(inst, off) IN IF d <= 1 THEN <<2022, 1, 30 + d>> ELSE <<2022, 2, d - 1>>

IsWorkingDay(inst, off) == DayOf(inst, off) % 7 \in 1..5

\* The great-circle distance from the office to p: the office is at latitude
\* officeLocation[1] and longitude officeLocation[2], and the distance function
\* takes its points as (longitude, latitude).
GeoDistance(p) ==
    DistanceHaversine(<<officeLocation[2], officeLocation[1]>>, <<p.Longitude, p.Latitude>>)

\* The day set of a set of starts, each an <<instant, zone offset to read it
\* in>>: the dates of the starts, each with the flag of its weekday.
DaySetOf(starts) ==
    [date \in {DateOf(x[1], x[2]) : x \in starts} |->
        \E x \in starts : DateOf(x[1], x[2]) = date /\ IsWorkingDay(x[1], x[2])]

\* The records of R that overlap the range and that the program finds within
\* the tolerance, and those that are within the tolerance on the earth.
FoundNear(R) == {p \in R : Overlaps(p) /\ Distance(p) <= tolerance}

TrulyNear(R) == {p \in R : Overlaps(p) /\ GeoDistance(p) <= tolerance}

\* The starts of records, read in the offset they were written with, and read
\* in the zone of the process.
OwnStarts(R) == {<<p.Start.inst, p.Start.off>> : p \in R}

LocalStarts(R) == {<<p.Start.inst, LocalOffset>> : p \in R}

\* The first file has been processed, and places still holds its records.
FirstFileDone == pc = "main" /\ fileIdx = 2

Failed(file) == file.openErr \/ file.decodeErr

\* The path points of a document in its order, each with the times of its
\* segment, and its place visits in their order.
PathPointsOf(file) ==
    Flatten([i \in 1..Len(file.semanticSegments.items) |->
        [j \in 1..Len(file.semanticSegments.items[i].timelinePath) |->
            [text  |-> file.semanticSegments.items[i].timelinePath[j].point,
             start |-> file.semanticSegments.items[i].startTime,
             end   |-> file.semanticSegments.items[i].endTime]]])

PlaceVisitsOf(file) ==
    LET visits == SelectSeq(file.timelineObjects, LAMBDA o : o.placeVisit # <<>>)
    IN  [k \in 1..Len(visits) |-> visits[k].placeVisit[1]]

\* The start and end of each path point (those of its segment), of each place
\* visit, and of each record.
PathTimes(file) ==
    [k \in 1..Len(PathPointsOf(file)) |-> <<PathPointsOf(file)[k].start, PathPointsOf(file)[k].end>>]

VisitTimes(file) ==
    [k \in 1..Len(PlaceVisitsOf(file)) |->
        <<PlaceVisitsOf(file)[k].duration.startTimestamp,
          PlaceVisitsOf(file)[k].duration.endTimestamp>>]

TimesOf(records) == [k \in 1..Len(records) |-> <<records[k].Start, records[k].End>>]

\* The records of all files, as a set, and those of the files that open and
\* decode.
AllRecords == UNION {Range(ParseTimelineInput(fileNames[k]).result) : k \in 1..Len(fileNames)}

DecodedRecords ==
    UNION {Range(TimelinePoints(Decode(fileNames[k])).result) :
              k \in {j \in 1..Len(fileNames) : ~Failed(fileNames[j])}}

\* ---- C1
\* C1: a turn of processFile's loop skips the record (does not count it and adds
\* no date) exactly when the record ends before the range starts or starts after
\* the range ends; a record that overlaps the range, were it only in one
\* instant, is counted; and the loop goes on with the next record either way, so
\* the order of the records does not matter.
C1_SkipIffOutsideRange ==
    [][(pc = "loop" /\ placeIdx <= Len(places)) =>
        LET p == places[placeIdx]
            outside == p.End.inst < startDate.inst \/ p.Start.inst > endDate.inst
        IN  /\ placeIdx' = placeIdx + 1
            /\ outside => placesProcessed' = placesProcessed /\ daysInTheOffice' = daysInTheOffice
            /\ ~outside => placesProcessed' = placesProcessed + 1]_vars

\* A record that starts after the range ends came first and was skipped, and the
\* next one, which starts at the very instant the range ends, was counted.
C1_Witness ==
    /\ pc = "loop" /\ Len(places) = 2 /\ placeIdx = 3 /\ placesProcessed = 1
    /\ places[1].Start.inst > endDate.inst
    /\ places[2].Start.inst = endDate.inst

\* ---- C2
\* C2: after processFile has run on the first file, a date is in the day set
\* exactly when the file has a record that overlaps the range, lies within the
\* tolerance (inclusive) of the office on the earth, and starts on that date; the
\* flag of the date is that of the weekday of that start.
C2_DaysAreThoseOfNearRecords ==
    FirstFileDone => daysInTheOffice = DaySetOf(OwnStarts(TrulyNear(Range(places))))

\* ---- C3
\* C3: Add is idempotent. With the day set as it is when the loop comes to a
\* record, adding the start of the record and then the same timestamp again, or
\* any other timestamp of the same calendar date, gives the day set of the first
\* Add: same dates, same flags, same size(), same workingDayCount().
C3_AddIsIdempotent ==
    (pc = "loop" /\ placeIdx <= Len(places)) =>
        LET t    == places[placeIdx].Start
            once == Add(daysInTheOffice, t)
        IN  \A u \in {Time(i, o) : i \in 0..(MaxInstant + 2), o \in Offsets} :
                DateOf(t.inst, t.off) = DateOf(u.inst, u.off) =>
                    LET twice == Add(once, u)
                    IN  /\ twice = once
                        /\ Cardinality(DOMAIN twice) = Cardinality(DOMAIN once)
                        /\ CountWorkingDays(twice) = CountWorkingDays(once)

\* Two records of one file, with different timestamps of the same date, were
\* both added, and the day set holds one date.
C3_Witness ==
    /\ pc = "loop" /\ Len(places) = 2 /\ placeIdx = 3 /\ placesProcessed = 2
    /\ places[1].Start # places[2].Start
    /\ DateOf(places[1].Start.inst, places[1].Start.off)
           = DateOf(places[2].Start.inst, places[2].Start.off)
    /\ FoundNear(Range(places)) = Range(places)
    /\ Cardinality(DOMAIN daysInTheOffice) = 1

\* ---- C4
\* C4: when main is done, the day set is a function of the set of the records of
\* all files: the order of the files and the order of the records in a file do not
\* change it.
C4_DaySetIsOrderFree ==
    pc = "done" => daysInTheOffice = DaySetOf(OwnStarts(FoundNear(AllRecords)))

\* Two different files were processed and each gave a date.
C4_Witness ==
    /\ pc = "done" /\ Len(fileNames) = 2 /\ fileNames[1] # fileNames[2]
    /\ Cardinality(DOMAIN daysInTheOffice) = 2

\* ---- C5
\* C5: a file that cannot be opened or decoded is logged, gives no record, leaves
\* the day set as it was, and main goes on with the next file; the summary counts
\* the days of the files that decode.
C5_FailedFileIsSkipped ==
    /\ [][(fileIdx <= Len(fileNames) /\ Failed(fileNames[fileIdx]) /\ pc \in {"main", "loop"}) =>
            /\ daysInTheOffice' = daysInTheOffice
            /\ pc = "main" => /\ pc' = "loop" /\ places' = <<>>
                              /\ <<fileIdx, "Could not parse file">> \in logged'
            /\ pc = "loop" => pc' = "main" /\ fileIdx' = fileIdx + 1]_vars
    /\ [](pc = "done" =>
            /\ output[1].days = Cardinality(DOMAIN daysInTheOffice)
            /\ daysInTheOffice = DaySetOf(OwnStarts(FoundNear(DecodedRecords))))

\* The first file failed, the second gave a day, and the summary counts it.
C5_Witness ==
    /\ pc = "done" /\ Len(fileNames) = 2 /\ Failed(fileNames[1])
    /\ output[1].days = 1

\* ---- C6
\* C6: when the document has the key semanticSegments with an array, empty or
\* not, the records are those of the path points and none comes from
\* timelineObjects; when the key is absent or null, the records are those of the
\* place visits of timelineObjects.
C6_FormatByPresenceOfKey ==
    (pc = "loop" /\ ~Failed(fileNames[fileIdx])) =>
        LET file == fileNames[fileIdx]
        IN  /\ file.semanticSegments.json = "array" => TimesOf(places) = PathTimes(file)
            /\ file.semanticSegments.json # "array" => TimesOf(places) = VisitTimes(file)

\* A document with an empty semanticSegments array and a place visit among its
\* timelineObjects gave no record.
C6_Witness ==
    /\ pc = "loop"
    /\ fileNames[fileIdx].semanticSegments = [json |-> "array", items |-> <<>>]
    /\ PlaceVisitsOf(fileNames[fileIdx]) # <<>>
    /\ ~Failed(fileNames[fileIdx])
    /\ places = <<>>

\* ---- C7
\* C7: parsePoint never fails, whatever the text: the run never ends in a panic
\* and goes on to its summary.
C7_ParsePointNeverFails == pc # "panic"

\* ---- C8
\* C8: the date that Add inserts, and its flag, are those of the start in the
\* zone of the process, not in the offset the timestamp was written with.
C8_DatesAreProcessLocal ==
    FirstFileDone => daysInTheOffice = DaySetOf(LocalStarts(FoundNear(Range(places))))

\* ---- C9
\* C9: the record of a place visit has the visit's center fields over 1e7, and
\* the location fields over 1e7 only when both center fields are zero (absent);
\* with one center field zero and the other not, it keeps the center fields.
C9_LocationOnlyWhenBothZero ==
    (pc = "loop" /\ ~Failed(fileNames[fileIdx])
        /\ fileNames[fileIdx].semanticSegments.json # "array") =>
        LET visits == PlaceVisitsOf(fileNames[fileIdx])
        IN  \A k \in 1..Len(visits) :
                IF visits[k].centerLatE7 = 0 /\ visits[k].centerLngE7 = 0
                THEN /\ places[k].Latitude * E7 = visits[k].location.latitudeE7
                     /\ places[k].Longitude * E7 = visits[k].location.longitudeE7
                ELSE /\ places[k].Latitude * E7 = visits[k].centerLatE7
                     /\ places[k].Longitude * E7 = visits[k].centerLngE7

\* ---- C10
\* C10: once processFile has called ParseTimelineInput on a document that
\* decodes, it holds the records of the document: one per path point, with the
\* times of its segment, or one per place visit, none dropped, none twice, in
\* the order of the document.
C10_OneRecordPerEntry ==
    (pc \in {"loop", "panic"} /\ ~Failed(fileNames[fileIdx])) =>
        /\ pc = "loop"
        /\ Len(places) = IF fileNames[fileIdx].semanticSegments.json = "array"
                         THEN Len(PathPointsOf(fileNames[fileIdx]))
                         ELSE Len(PlaceVisitsOf(fileNames[fileIdx]))
        /\ \A k \in 1..Len(places) :
              <<places[k].Start, places[k].End>> =
                  IF fileNames[fileIdx].semanticSegments.json = "array"
                  THEN PathTimes(fileNames[fileIdx])[k]
                  ELSE VisitTimes(fileNames[fileIdx])[k]

====
